---- MODULE Spec2Model ----
(***************************************************************************)
(* Model of CalculatingRoadimpact.py: the reference matching and           *)
(* background estimation of road impacts on forest metrics.                *)
(*                                                                         *)
(* Numbers.  The program computes in floating point; the model computes    *)
(* exactly, on rationals [n, d] in lowest terms with d > 0.  The three     *)
(* non-finite floats are kept apart from the finite ones: NaN is 0/0 and   *)
(* +inf, -inf are 1/0 and -1/0, which is what 1.0 / 0.0 yields under       *)
(* np.errstate(divide='ignore').                                           *)
(*                                                                         *)
(* Distances.  A distance sqrt(dx^2 + dy^2) is represented by its square   *)
(* dx^2 + dy^2, in units of GridStep^2: comparison of distances is         *)
(* comparison of squares, and the weight 1 / distance^IDW_POWER is a       *)
(* rational in the square.  The common factor GridStep^IDW_POWER of all    *)
(* weights cancels in a weighted average.                                  *)
(***************************************************************************)
EXTENDS Integers, Sequences, FiniteSets, TLC

VARIABLES
    pc,            \* position of the run: which step comes next
    table1,        \* treatment set  (Windowflag = 1, Buffer_type > 1)
    table2,        \* candidate pool (Buffer_type <= 1, stable covariates)
    idx,           \* position of the loop "for _, row in table1.iterrows()"
    result_rows,   \* result collection
    skipped_rows,  \* skip ledger
    top_records,   \* locals of the last iteration that selected: the
    top_distances, \*   reference subset and the distances that go with it
    output_file,   \* OUTPUT_FILE on disk: "absent", "partial" or "written"
    skipped_file,  \* SKIPPED_FILE on disk
    retval,        \* what process_forest_metrics returned: "none", "True", "False"
    args,          \* arguments of a call of one of the pure functions
    result         \* and what it returned

vars == <<pc, table1, table2, idx, result_rows, skipped_rows, top_records,
          top_distances, output_file, skipped_file, retval, args, result>>

-----------------------------------------------------------------------------
(* Program constants *)

THRESHOLD_DISTANCE == 50000
MIN_REF_POINTS == 3
IDW_POWER == 2
SENTINEL == -9999

\* TOP_PERCENTILE = 0.2, as the fraction TopNum / TopDen.  The double nearest
\* to 0.2 lies just above it, so int(n * 0.2) is floor(n / 5) for every table
\* length n.
TopNum == 1
TopDen == 5

(* Bounds of the model *)

MaxLen == 3        \* longest value array handed to inverse_distance_weighting
MaxTreat == 2      \* most treatment points
MaxPool == 4       \* most candidate points
MaxLarge == 21     \* most candidate points of a patterned large pool

-----------------------------------------------------------------------------
(* Exact arithmetic standing for float64 *)

Abs(x) == IF x < 0 THEN -x ELSE x

Sign(x) == IF x < 0 THEN -1 ELSE IF x > 0 THEN 1 ELSE 0

RECURSIVE GCD(_, _)
GCD(a, b) == IF b = 0 THEN a ELSE GCD(b, a % b)

Rat(n, d) ==
    LET g == GCD(Abs(n), Abs(d))
    IN  [n |-> Sign(d) * (n \div g), d |-> Abs(d) \div g]

Num(k) == [n |-> k, d |-> 1]

NaN == [n |-> 0, d |-> 0]

Inf == [n |-> 1, d |-> 0]

isna(v) == v.n = 0 /\ v.d = 0

isinf(v) == v.n # 0 /\ v.d = 0

isfinite(v) == v.d > 0

RAdd(a, b) ==
    IF isna(a) \/ isna(b) THEN NaN
    ELSE IF isinf(a) /\ isinf(b) THEN (IF a.n = b.n THEN a ELSE NaN)
    ELSE IF isinf(a) THEN a
    ELSE IF isinf(b) THEN b
    ELSE Rat(a.n * b.d + b.n * a.d, a.d * b.d)

RNeg(a) == [n |-> -a.n, d |-> a.d]

RSub(a, b) == RAdd(a, RNeg(b))

RMul(a, b) ==
    IF isna(a) \/ isna(b) THEN NaN
    ELSE IF isinf(a) \/ isinf(b)
         THEN (IF a.n = 0 \/ b.n = 0 THEN NaN
               ELSE [n |-> Sign(a.n) * Sign(b.n), d |-> 0])
    ELSE LET g == GCD(Abs(a.n), b.d)   \* reduce crosswise before multiplying
             h == GCD(Abs(b.n), a.d)
         IN  Rat((a.n \div g) * (b.n \div h), (a.d \div h) * (b.d \div g))

RInv(b) ==
    IF isna(b) THEN NaN
    ELSE IF isinf(b) THEN Num(0)
    ELSE IF b.n = 0 THEN Inf
    ELSE Rat(Sign(b.n) * b.d, Abs(b.n))

RDiv(a, b) == RMul(a, RInv(b))

RAbs(a) == [n |-> Abs(a.n), d |-> a.d]

\* a < b on floats: false as soon as one side is NaN
RLt(a, b) ==
    IF isna(a) \/ isna(b) THEN FALSE
    ELSE IF isinf(a) \/ isinf(b)
         THEN (IF isinf(a) /\ isinf(b) THEN a.n < b.n
               ELSE IF isinf(a) THEN a.n < 0 ELSE b.n > 0)
    ELSE a.n * b.d < b.n * a.d

RLe(a, b) == RLt(a, b) \/ (~isna(a) /\ a = b)

RECURSIVE RSum(_)
RSum(s) == IF Len(s) = 0 THEN Num(0) ELSE RAdd(Head(s), RSum(Tail(s)))

\* np.mean of a non-empty array
RMean(s) == RDiv(RSum(s), Num(Len(s)))

\* distance ** power, for a distance kept as its square (power is even)
DistPow(dsq, power) == dsq ^ (power \div 2)

\* a[mask]: the entries of a at the positions where mask holds, in order
RECURSIVE Masked(_, _)
Masked(a, mask) ==
    IF Len(a) = 0 THEN <<>>
    ELSE (IF Head(mask) THEN <<Head(a)>> ELSE <<>>) \o Masked(Tail(a), Tail(mask))

-----------------------------------------------------------------------------
(* is_valid_value and inverse_distance_weighting *)

INVALID_VALUES == {Num(SENTINEL), NaN}

is_valid_value(value) == value \notin INVALID_VALUES /\ ~isna(value)

\* weights = 1.0 / (valid_distances ** power); weights[np.isinf(weights)] = 0
WeightsKeepInf(valid_distances, power) ==
    [k \in 1..Len(valid_distances) |->
        RDiv(Num(1), Num(DistPow(valid_distances[k], power)))]

Weights(valid_distances, power) ==
    LET weights == [k \in 1..Len(valid_distances) |->
                       RDiv(Num(1), Num(DistPow(valid_distances[k], power)))]
    IN  [k \in 1..Len(weights) |->
            IF isinf(weights[k]) THEN Num(0) ELSE weights[k]]

ValidMaskAll(values) == [k \in 1..Len(values) |-> ~isna(values[k])]

ValidMask(values) == [k \in 1..Len(values) |-> is_valid_value(values[k])]

inverse_distance_weighting(values, distances, power) ==
    LET valid_mask == ValidMask(values)
        valid_values == Masked(values, valid_mask)
        valid_distances == Masked(distances, valid_mask)
    IN  IF Len(valid_values) = 0 THEN NaN
        ELSE LET weights == Weights(valid_distances, power)
                 total_weight == RSum(weights)
                 products == [k \in 1..Len(weights) |->
                                 RMul(valid_values[k], weights[k])]
             IN  IF RLt(Num(0), total_weight)
                 THEN RDiv(RSum(products), total_weight)
                 ELSE RMean(valid_values)

-----------------------------------------------------------------------------
(* The aggregator on its own: any value array with its distances *)

AggValues == {NaN, Num(SENTINEL), Num(10), Num(20), Num(30)}

AggDistances == {0, 1, 4, 9}

Idle ==
    /\ table1 = <<>> /\ table2 = <<>> /\ idx = 0
    /\ result_rows = <<>> /\ skipped_rows = <<>>
    /\ top_records = <<>> /\ top_distances = <<>>
    /\ output_file = "absent" /\ skipped_file = "absent" /\ retval = "none"

IdleUnchanged ==
    UNCHANGED <<table1, table2, idx, result_rows, skipped_rows, top_records,
                top_distances, output_file, skipped_file, retval>>

InitIDW ==
    /\ Idle
    /\ pc = "call"
    /\ \E k \in 0..MaxLen :
          \E vs \in [1..k -> AggValues], ds \in [1..k -> AggDistances] :
              args = [values |-> vs, distances |-> ds]
    /\ result = NaN

CallIDW ==
    /\ pc = "call"
    /\ result' = inverse_distance_weighting(args.values, args.distances, IDW_POWER)
    /\ pc' = "returned"
    /\ UNCHANGED args
    /\ IdleUnchanged

NextIDW == CallIDW

SpecIDW == InitIDW /\ [][NextIDW]_vars

-----------------------------------------------------------------------------
(* Properties of the aggregator *)

RECURSIVE SetSum(_, _)
SetSum(S, f) ==
    IF S = {} THEN 0
    ELSE LET x == CHOOSE y \in S : TRUE IN f[x] + SetSum(S \ {x}, f)

RECURSIVE SetProd(_, _)
SetProd(S, f) ==
    IF S = {} THEN 1
    ELSE LET x == CHOOSE y \in S : TRUE IN f[x] * SetProd(S \ {x}, f)

\* the positions of args.values holding a value that is neither missing nor
\* the sentinel
Present == {k \in DOMAIN args.values :
               args.values[k] # NaN /\ args.values[k] # Num(SENTINEL)}

\* those of them at a non-zero distance
Apart == {k \in Present : args.distances[k] # 0}

\* C4: a valid entry at distance 0 has weight zero and every weight is finite
\* and non-negative; with a valid entry at a non-zero distance the result is
\* the average of the valid entries weighted by 1 / distance^exponent, the
\* zero-distance entries contributing nothing; with every valid entry at
\* distance 0 the result is the arithmetic mean of the valid values.
C4_ZeroDistanceWeights ==
    pc = "returned" =>
        LET vals == [k \in Present |-> args.values[k].n]
            dpow == [k \in Present |-> args.distances[k] ^ (IDW_POWER \div 2)]
            \* 1 / dpow[k], scaled by the product of all non-zero dpow
            scaled == [k \in Apart |-> SetProd(Apart \ {k}, dpow)]
            weighted == [k \in Apart |-> vals[k] * scaled[k]]
            ws == Weights(Masked(args.distances, ValidMask(args.values)), IDW_POWER)
        IN  /\ \A k \in 1..Len(ws) : isfinite(ws[k]) /\ ws[k].n >= 0
            /\ \A k \in 1..Len(ws) :
                  Masked(args.distances, ValidMask(args.values))[k] = 0
                      => ws[k] = Num(0)
            /\ Apart # {} =>
                  /\ isfinite(result)
                  /\ result.n * SetSum(Apart, scaled)
                        = result.d * SetSum(Apart, weighted)
            /\ (Present # {} /\ Apart = {}) =>
                  /\ isfinite(result)
                  /\ result.n * Cardinality(Present)
                        = result.d * SetSum(Present, vals)

\* a call where a valid entry at distance 0 sits next to valid entries at
\* other distances, and has returned
C4_Witness ==
    /\ pc = "returned"
    /\ Apart # {}
    /\ Present \ Apart # {}
    /\ \E j \in Apart, k \in Present \ Apart : args.values[j] # args.values[k]

\* C5: missing and sentinel values leave with their distances before the
\* weighting: the result is that of the call on the remaining entries alone,
\* and with no entry remaining it is the missing marker.
C5_InvalidExcluded ==
    pc = "returned" =>
        LET keep == [k \in 1..Len(args.values) |-> k \in Present]
        IN  /\ result = inverse_distance_weighting(
                            Masked(args.values, keep),
                            Masked(args.distances, keep), IDW_POWER)
            /\ Present = {} => isna(result)
            /\ Present # {} => result \notin {NaN, Num(SENTINEL)}

\* a call holding a missing value, a sentinel and a valid value has returned
C5_Witness ==
    /\ pc = "returned"
    /\ Present # {}
    /\ \E j, k \in DOMAIN args.values :
          args.values[j] = NaN /\ args.values[k] = Num(SENTINEL)

-----------------------------------------------------------------------------
(* Absolute and relative change of one metric, and the temporal trends *)

target_columns == <<"Area2000", "Area2020", "H2000", "H2020",
                    "PD2000", "PD2020", "NPP2000", "NPP2020">>

trend_vars == <<"Area", "H", "PD", "NPP">>

endswith(s, suffix) ==
    /\ Len(s) >= Len(suffix)
    /\ SubSeq(s, Len(s) - Len(suffix) + 1, Len(s)) = suffix

\* the four cells of one target column (the body of "for col in target_columns")
ScoreColumnTrustRef(col, value, bg_mean) ==
    LET valid == is_valid_value(value) /\ ~isna(bg_mean)
        denominator == RAdd(RAbs(bg_mean), RAbs(value))
    IN  (col \o "_road" :> value) @@ (col \o "_ref" :> bg_mean)
        @@ (col \o "_AC" :> IF valid THEN RSub(value, bg_mean) ELSE NaN)
        @@ (col \o "_RC" :>
               IF valid /\ denominator # Num(0)
               THEN RMul(RDiv(RSub(value, bg_mean), denominator), Num(100))
               ELSE NaN)

ScoreColumn(col, value, bg_mean) ==
    LET valid == is_valid_value(value) /\ is_valid_value(bg_mean)
        denominator == RAdd(RAbs(bg_mean), RAbs(value))
    IN  (col \o "_road" :> value) @@ (col \o "_ref" :> bg_mean)
        @@ (col \o "_AC" :> IF valid THEN RSub(value, bg_mean) ELSE NaN)
        @@ (col \o "_RC" :>
               IF valid /\ denominator # Num(0)
               THEN RMul(RDiv(RSub(value, bg_mean), denominator), Num(100))
               ELSE NaN)

\* the cells of the columns cols, for the treatment values row and the
\* background means bg (both keyed by column)
RECURSIVE ScoreColumns(_, _, _)
ScoreColumns(cols, row, bg) ==
    IF Len(cols) = 0 THEN <<>>
    ELSE ScoreColumns(Tail(cols), row, bg)
         @@ ScoreColumn(Head(cols), row[Head(cols)], bg[Head(cols)])

\* the two trend cells of one variable
TrendCells(row, var) ==
    LET base_var == IF endswith(var, "2000") \/ endswith(var, "2020")
                    THEN SubSeq(var, 1, Len(var) - 4) ELSE var
        var2000 == base_var \o "2000_AC"
        var2020 == base_var \o "2020_AC"
        denominator == RAdd(RAbs(row[var2000]), RAbs(row[var2020]))
    IN  IF is_valid_value(row[var2020]) /\ is_valid_value(row[var2000])
        THEN (base_var \o "_AC_trend" :> RSub(row[var2020], row[var2000]))
             @@ (base_var \o "_RC_trend" :>
                    IF RLt(Num(0), denominator)
                    THEN RMul(RDiv(RSub(row[var2020], row[var2000]), denominator),
                              Num(100))
                    ELSE NaN)
        ELSE (base_var \o "_AC_trend" :> NaN) @@ (base_var \o "_RC_trend" :> NaN)

RECURSIVE calculate_temporal_trends(_, _)
calculate_temporal_trends(row, target_vars) ==
    IF Len(target_vars) = 0 THEN <<>>
    ELSE calculate_temporal_trends(row, Tail(target_vars))
         @@ TrendCells(row, Head(target_vars))

-----------------------------------------------------------------------------
(* The scorer and the trend deriver on their own: one base variable takes    *)
(* any treatment values and background means, the others a plain pair.       *)

ScoreTreatments == {NaN, Num(SENTINEL), Num(0), Num(1), Num(-3)}

ScoreBackgrounds == {NaN, Num(SENTINEL), Num(0), Num(1), Num(10000), Rat(1, 2)}

Year2000(var) == var \o "2000"

Year2020(var) == var \o "2020"

InitScore ==
    /\ Idle
    /\ pc = "score"
    /\ \E v \in 1..Len(trend_vars) :
       \E t0, t1 \in ScoreTreatments, b0, b1 \in ScoreBackgrounds :
          args = [row |-> [c \in {target_columns[k] : k \in 1..Len(target_columns)} |->
                              IF c = Year2000(trend_vars[v]) THEN t0
                              ELSE IF c = Year2020(trend_vars[v]) THEN t1
                              ELSE Num(1)],
                  bg  |-> [c \in {target_columns[k] : k \in 1..Len(target_columns)} |->
                              IF c = Year2000(trend_vars[v]) THEN b0
                              ELSE IF c = Year2020(trend_vars[v]) THEN b1
                              ELSE Num(0)]]
    /\ result = <<>>

\* lines 176-195: the AC and RC of every target column
Score ==
    /\ pc = "score"
    /\ result' = ScoreColumns(target_columns, args.row, args.bg)
    /\ pc' = "trend"
    /\ UNCHANGED args
    /\ IdleUnchanged

\* lines 198-199: the trends, computed from the AC cells of the row
Trend ==
    /\ pc = "trend"
    /\ result' = calculate_temporal_trends(result, trend_vars) @@ result
    /\ pc' = "scored"
    /\ UNCHANGED args
    /\ IdleUnchanged

NextScore == Score \/ Trend

SpecScore == InitScore /\ [][NextScore]_vars

-----------------------------------------------------------------------------
(* Properties of the scorer and of the trend deriver *)

ColumnSet == {target_columns[k] : k \in 1..Len(target_columns)}

BaseSet == {trend_vars[k] : k \in 1..Len(trend_vars)}

\* the value is there: neither missing nor the sentinel
IsPresent(v) == v # NaN /\ v # Num(SENTINEL)

\* C6: AC is defined exactly when treatment and background are both present
\* and is then treatment - background; RC is defined exactly when AC is and
\* |treatment| + |background| is not zero, is then
\* AC / (|treatment| + |background|) * 100, and lies in [-200, 200].
C6_ImpactScores ==
    pc \in {"trend", "scored"} =>
        \A c \in ColumnSet :
            LET t == args.row[c]
                b == args.bg[c]
                AC == result[c \o "_AC"]
                RC == result[c \o "_RC"]
                both == IsPresent(t) /\ IsPresent(b)
                \* |t| + |b| as the fraction sn / sd
                sn == Abs(t.n) * b.d + Abs(b.n) * t.d
                sd == t.d * b.d
            IN  /\ ~isna(AC) <=> both
                /\ both => /\ isfinite(AC)
                           /\ AC.n * t.d * b.d = AC.d * (t.n * b.d - b.n * t.d)
                /\ ~isna(RC) <=> (both /\ sn # 0)
                /\ ~isna(RC) =>
                       /\ isfinite(RC)
                       /\ RMul(RC, Rat(sn, sd)) = RMul(AC, Num(100))
                       /\ -200 * RC.d <= RC.n
                       /\ RC.n <= 200 * RC.d

\* a column with both values present and different has been scored
C6_Witness ==
    /\ pc = "scored"
    /\ \E c \in ColumnSet :
          /\ IsPresent(args.row[c]) /\ IsPresent(args.bg[c])
          /\ args.row[c] # args.bg[c]
          /\ args.bg[c] # Num(0)
          /\ isfinite(result[c \o "_RC"])
    /\ \E c \in ColumnSet :
          /\ IsPresent(args.row[c]) /\ args.bg[c] = Num(SENTINEL)
          /\ isna(result[c \o "_AC"])

\* C7: AC_trend is defined exactly when both AC cells are, and is then
\* AC_2020 - AC_2000; RC_trend is undefined when an AC cell is undefined or
\* |AC_2000| + |AC_2020| is zero.
C7_TrendDefinedExactly ==
    pc = "scored" =>
        \A v \in BaseSet :
            LET a0 == result[v \o "2000_AC"]
                a1 == result[v \o "2020_AC"]
                at == result[v \o "_AC_trend"]
                rt == result[v \o "_RC_trend"]
            IN  /\ ~isna(at) <=> (~isna(a0) /\ ~isna(a1))
                /\ ~isna(at) => at = RSub(a1, a0)
                /\ (isna(a0) \/ isna(a1)) => isna(rt)
                /\ (~isna(a0) /\ ~isna(a1) /\ a0.n = 0 /\ a1.n = 0) => isna(rt)

-----------------------------------------------------------------------------
(* process_forest_metrics: the batch over the treatment set *)

\* coordinates are metres on a grid whose step is a fifth of the threshold,
\* so that a 3-4-5 triangle puts a candidate exactly at the threshold
GridStep == THRESHOLD_DISTANCE \div 5

\* the square of np.sqrt((x2 - x1)**2 + (y2 - y1)**2), in units of GridStep^2
DistSq(x1, y1, x2, y2) ==
    ((x2 - x1) \div GridStep) ^ 2 + ((y2 - y1) \div GridStep) ^ 2

\* distances = np.sqrt((table2_coords[:, 0] - row['X'])**2 + ...)
Distances(row, pool) ==
    [j \in 1..Len(pool) |-> DistSq(row.X, row.Y, pool[j].X, pool[j].Y)]

\* cindex_diffs = np.abs(table2_cindex - row['CEI'])
CindexDiffs(row, pool) ==
    [j \in 1..Len(pool) |-> RAbs(RSub(pool[j].CEI, row.CEI))]

\* valid_mask = distances < THRESHOLD_DISTANCE
WithinMaskInclusive(distances) ==
    [j \in 1..Len(distances) |->
        distances[j] <= (THRESHOLD_DISTANCE \div GridStep) ^ 2]

WithinMask(distances) ==
    [j \in 1..Len(distances) |->
        distances[j] < (THRESHOLD_DISTANCE \div GridStep) ^ 2]

Max(a, b) == IF a >= b THEN a ELSE b

\* n_top = max(MIN_REF_POINTS, int(len(filtered_table2) * TOP_PERCENTILE))
NTopNoMinimum(n) == (n * TopNum) \div TopDen

NTop(n) == Max(MIN_REF_POINTS, (n * TopNum) \div TopDen)

\* np.argsort(a): default kind 'quicksort', which numpy documents as not
\* stable: any permutation that puts the keys in ascending order.  The
\* orders of the positions in S, as sequences.
RECURSIVE ArgSortsOf(_, _)
ArgSortsOf(a, S) ==
    IF S = {} THEN {<<>>}
    ELSE LET least == {i \in S : \A j \in S : RLe(a[i], a[j])}
         IN  UNION {{<<i>> \o rest : rest \in ArgSortsOf(a, S \ {i})} : i \in least}

ArgSorts(a) == ArgSortsOf(a, 1..Len(a))

\* a[indices]
Take(a, indices) == [k \in 1..Len(indices) |-> a[indices[k]]]

\* top_distances = filtered_distances[top_indices]
TopDistancesUnfiltered(distances, filtered_distances, top_indices) ==
    Take(distances, top_indices)

TopDistances(distances, filtered_distances, top_indices) ==
    Take(filtered_distances, top_indices)

\* the column col of a sequence of records
Column(records, col) == [k \in 1..Len(records) |-> records[k].vals[col]]

\* 'Nearest_Ref_Distance': filtered_distances.min()
MinOf(a) == CHOOSE m \in {a[k] : k \in 1..Len(a)} : \A k \in 1..Len(a) : m <= a[k]

\* the cells of a result row before the trends, lines 155-195
ScoredRow(row, top, dists, filtered_distances) ==
    LET bg_cindex == inverse_distance_weighting(
                         [k \in 1..Len(top) |-> top[k].CEI], dists, IDW_POWER)
        cindex_diff == IF ~isna(bg_cindex) THEN RSub(row.CEI, bg_cindex) ELSE NaN
        bg == [c \in {target_columns[k] : k \in 1..Len(target_columns)} |->
                  inverse_distance_weighting(Column(top, c), dists, IDW_POWER)]
    IN  ("pointID" :> Num(row.pointID))
        @@ ("X" :> Num(row.X)) @@ ("Y" :> Num(row.Y))
        @@ ("Buffer_type" :> Num(row.Buffer_type))
        @@ ("CEI_Diff" :> cindex_diff)
        @@ ("Nearest_Ref_Distance" :> Num(MinOf(filtered_distances)))
        @@ ("Ref_Points_Used" :> Num(Len(top)))
        @@ ScoreColumns(target_columns, row.vals, bg)

\* the result row of one treatment point, lines 155-199 (the scored row is
\* bound once, then updated with its trends)
ResultRow(row, top, dists, filtered_distances) ==
    CHOOSE updated \in
        {calculate_temporal_trends(result_row, trend_vars) @@ result_row :
            result_row \in {ScoredRow(row, top, dists, filtered_distances)}} : TRUE

\* the position after the iteration idx
AfterIteration == IF idx = Len(table1) THEN "save_results" ELSE "loop"

\* lines 111-113: "if table1.empty or table2.empty: ... return False"
EmptyTables ==
    /\ pc = "start"
    /\ table1 = <<>> \/ table2 = <<>>
    /\ retval' = "False"
    /\ pc' = "done"
    /\ UNCHANGED <<table1, table2, idx, result_rows, skipped_rows, top_records,
                   top_distances, output_file, skipped_file, args, result>>

\* lines 115-127: the containers are set up and the loop is entered
StartLoop ==
    /\ pc = "start"
    /\ table1 # <<>> /\ table2 # <<>>
    /\ idx' = 1
    /\ pc' = "loop"
    /\ UNCHANGED <<table1, table2, result_rows, skipped_rows, top_records,
                   top_distances, output_file, skipped_file, retval, args, result>>

\* lines 127-146: a treatment point with too few candidates in range
SkipPoint ==
    /\ pc = "loop"
    /\ LET row == table1[idx]
           valid_mask == WithinMask(Distances(row, table2))
           filtered_table2 == Masked(table2, valid_mask)
       IN  /\ Len(filtered_table2) < MIN_REF_POINTS
           /\ skipped_rows' = Append(skipped_rows,
                  [pointID |-> row.pointID, Reason |-> "Not enough reference points"])
    /\ idx' = idx + 1
    /\ pc' = AfterIteration
    /\ UNCHANGED <<table1, table2, result_rows, top_records, top_distances,
                   output_file, skipped_file, retval, args, result>>

\* lines 127-141 and 148-153: the reference subset of a treatment point
\* (\E over a singleton binds a local once)
SelectReferences ==
    /\ pc = "loop"
    /\ \E row \in {table1[idx]} :
       \E distances \in {Distances(row, table2)} :
       \E valid_mask \in {WithinMask(distances)} :
       \E filtered_distances \in {Masked(distances, valid_mask)} :
       \E filtered_cindex_diffs \in {Masked(CindexDiffs(row, table2), valid_mask)} :
       \E filtered_table2 \in {Masked(table2, valid_mask)} :
          /\ ~(Len(filtered_table2) < MIN_REF_POINTS)
          /\ \E n_top \in {NTop(Len(filtered_table2))} :
             \E top_indices \in {SubSeq(sorted_indices, 1, n_top) :
                                    sorted_indices \in ArgSorts(filtered_cindex_diffs)} :
                /\ top_records' = Take(filtered_table2, top_indices)
                /\ top_distances' =
                       TopDistances(distances, filtered_distances, top_indices)
    /\ pc' = "score"
    /\ UNCHANGED <<table1, table2, idx, result_rows, skipped_rows, output_file,
                   skipped_file, retval, args, result>>

\* lines 155-201: the result row of the treatment point, from its reference
\* subset
ScorePoint ==
    /\ pc = "score"
    /\ \E row \in {table1[idx]} :
       \E distances \in {Distances(row, table2)} :
       \E filtered_distances \in {Masked(distances, WithinMask(distances))} :
          result_rows' = Append(result_rows,
              ResultRow(row, top_records, top_distances, filtered_distances))
    /\ idx' = idx + 1
    /\ pc' = AfterIteration
    /\ UNCHANGED <<table1, table2, skipped_rows, top_records, top_distances,
                   output_file, skipped_file, retval, args, result>>

\* lines 204-230: the results are written when there are any
SaveResults ==
    /\ pc = "save_results"
    /\ output_file' = IF result_rows # <<>> THEN "written" ELSE output_file
    /\ pc' = "save_skipped"
    /\ UNCHANGED <<table1, table2, idx, result_rows, skipped_rows, top_records,
                   top_distances, skipped_file, retval, args, result>>

\* lines 233-237: the skip ledger is written when there is one; return True
SaveSkipped ==
    /\ pc = "save_skipped"
    /\ skipped_file' = IF skipped_rows # <<>> THEN "written" ELSE skipped_file
    /\ retval' = "True"
    /\ pc' = "done"
    /\ UNCHANGED <<table1, table2, idx, result_rows, skipped_rows, top_records,
                   top_distances, output_file, args, result>>

\* lines 239-241, for an exception raised inside the loop
ExceptInLoop ==
    /\ pc \in {"loop", "score"}
    /\ retval' = "False"
    /\ pc' = "done"
    /\ UNCHANGED <<table1, table2, idx, result_rows, skipped_rows, top_records,
                   top_distances, output_file, skipped_file, args, result>>

\* lines 239-241, for result_df.to_csv raising: before the file is created
\* or after part of it is on disk
ExceptSaveResults ==
    /\ pc = "save_results"
    /\ result_rows # <<>>
    /\ output_file' \in {"absent", "partial"}
    /\ retval' = "False"
    /\ pc' = "done"
    /\ UNCHANGED <<table1, table2, idx, result_rows, skipped_rows, top_records,
                   top_distances, skipped_file, args, result>>

\* lines 239-241, for the to_csv of the skip ledger raising
ExceptSaveSkipped ==
    /\ pc = "save_skipped"
    /\ skipped_rows # <<>>
    /\ skipped_file' \in {"absent", "partial"}
    /\ retval' = "False"
    /\ pc' = "done"
    /\ UNCHANGED <<table1, table2, idx, result_rows, skipped_rows, top_records,
                   top_distances, output_file, args, result>>

Next ==
    \/ EmptyTables
    \/ StartLoop
    \/ SkipPoint
    \/ SelectReferences
    \/ ScorePoint
    \/ SaveResults
    \/ SaveSkipped
    \/ ExceptInLoop
    \/ ExceptSaveResults
    \/ ExceptSaveSkipped

-----------------------------------------------------------------------------
(* Inputs of the batch: small tables of every shape *)

Columns == {target_columns[k] : k \in 1..Len(target_columns)}

\* a treatment point: 4 steps east of the origin with index 0, or 7 steps
\* east with index 1
TreatmentKinds ==
    { [X |-> 4 * GridStep, Y |-> 0, CEI |-> Num(0), Buffer_type |-> 2,
       vals |-> [c \in Columns |-> IF endswith(c, "2000") THEN Num(5) ELSE Num(1)]],
      [X |-> 7 * GridStep, Y |-> 0, CEI |-> Num(1), Buffer_type |-> 3,
       vals |-> [c \in Columns |-> IF endswith(c, "2000") THEN Num(2) ELSE NaN]] }

\* a candidate point.  From the first treatment place the three kinds lie at
\* 4, 3 and 5 steps (5 steps is exactly the threshold), from the second at
\* 7, 0 and 4 steps; their index differs from the treatment point's
\* by 1, 0, 1 and by 0, 1, 0.
CandidateKinds ==
    { [X |-> 0, Y |-> 0, CEI |-> Num(1), Buffer_type |-> 0,
       vals |-> [c \in Columns |-> IF endswith(c, "2000") THEN Num(4) ELSE NaN]],
      [X |-> 7 * GridStep, Y |-> 0, CEI |-> Num(0), Buffer_type |-> 1,
       vals |-> [c \in Columns |->
                    IF endswith(c, "2000") THEN Num(2) ELSE Num(SENTINEL)]],
      [X |-> 7 * GridStep, Y |-> 4 * GridStep, CEI |-> Num(1), Buffer_type |-> 0,
       vals |-> [c \in Columns |-> IF endswith(c, "2000") THEN Num(8) ELSE Num(3)]] }

\* the rows get their pointID: treatment points from 1, candidates from 101
WithIds(kinds, base) ==
    [k \in 1..Len(kinds) |->
        [pointID |-> base + k, X |-> kinds[k].X, Y |-> kinds[k].Y,
         CEI |-> kinds[k].CEI, Buffer_type |-> kinds[k].Buffer_type,
         vals |-> kinds[k].vals]]

InitSmall ==
    /\ pc = "start"
    /\ \E n \in 0..MaxTreat : \E ks \in [1..n -> TreatmentKinds] :
          table1 = WithIds(ks, 0)
    /\ \E n \in 0..MaxPool : \E ks \in [1..n -> CandidateKinds] :
          table2 = WithIds(ks, 100)
    /\ idx = 0
    /\ result_rows = <<>> /\ skipped_rows = <<>>
    /\ top_records = <<>> /\ top_distances = <<>>
    /\ output_file = "absent" /\ skipped_file = "absent" /\ retval = "none"
    /\ args = <<>> /\ result = <<>>


-----------------------------------------------------------------------------
(* Inputs of the batch: one treatment point and a large pool, laid out by   *)
(* pattern, so that a fifth of the candidates in range exceeds the minimum  *)

\* the candidate j of n: its place alternates between the first two candidate
\* places or, when spread holds, goes round the three; the index values are
\* all different and rise or fall along the pool
LargeCandidate(j, n, spread, rising) ==
    [X |-> IF (spread /\ j % 3 = 1) \/ (~spread /\ j % 2 = 1)
           THEN 0 ELSE 7 * GridStep,
     Y |-> IF spread /\ j % 3 = 0 THEN 4 * GridStep ELSE 0,
     CEI |-> IF rising THEN Rat(j, n + 1) ELSE Rat(n + 1 - j, n + 1),
     Buffer_type |-> j % 2,
     vals |-> [c \in Columns |->
                  IF endswith(c, "2000") THEN Num(j)
                  ELSE IF j % 3 = 1 THEN NaN ELSE Num(j % 4)]]

InitLarge ==
    /\ pc = "start"
    /\ \E k \in TreatmentKinds : table1 = WithIds(<<k>>, 0)
    /\ \E n \in 0..MaxLarge : \E spread, rising \in BOOLEAN :
          table2 = WithIds([j \in 1..n |-> LargeCandidate(j, n, spread, rising)], 100)
    /\ idx = 0
    /\ result_rows = <<>> /\ skipped_rows = <<>>
    /\ top_records = <<>> /\ top_distances = <<>>
    /\ output_file = "absent" /\ skipped_file = "absent" /\ retval = "none"
    /\ args = <<>> /\ result = <<>>

\* the batch starts from a small table of any shape or from a large
\* patterned one
Init == InitSmall \/ InitLarge

Spec == Init /\ [][Next]_vars

-----------------------------------------------------------------------------
(* Properties of the batch *)

\* the pool positions at a distance strictly below the threshold from the
\* treatment point i
InRange(i) ==
    {j \in 1..Len(table2) :
        DistSq(table1[i].X, table1[i].Y, table2[j].X, table2[j].Y)
            < (THRESHOLD_DISTANCE \div GridStep) ^ 2}

\* the rows of the two collections that carry the pointID of treatment point i
SkipsOf(i) == {k \in 1..Len(skipped_rows) : skipped_rows[k].pointID = table1[i].pointID}

ResultsOf(i) ==
    {k \in 1..Len(result_rows) : result_rows[k]["pointID"] = Num(table1[i].pointID)}

\* C1: every treatment point the loop has passed is in exactly one of the two
\* collections, once: in the skip ledger, with the reason "Not enough
\* reference points", if and only if fewer than the minimum count of
\* candidates lie strictly below the threshold, and in the results otherwise;
\* the points not yet reached are in neither, and when the loop has finished
\* every point has been passed, whatever was skipped on the way.
C1_SkipOrResult ==
    /\ (pc \in {"save_results", "save_skipped"} \/ retval = "True")
           => idx = Len(table1) + 1
    /\ idx >= 1 => Len(skipped_rows) + Len(result_rows) = idx - 1
    /\ \A i \in 1..Len(table1) :
          IF i >= idx
          THEN SkipsOf(i) = {} /\ ResultsOf(i) = {}
          ELSE IF Cardinality(InRange(i)) < MIN_REF_POINTS
               THEN /\ Cardinality(SkipsOf(i)) = 1
                    /\ ResultsOf(i) = {}
                    /\ \A k \in SkipsOf(i) :
                          skipped_rows[k].Reason = "Not enough reference points"
               ELSE /\ SkipsOf(i) = {}
                    /\ Cardinality(ResultsOf(i)) = 1

\* the run has returned True with a skipped point ahead of a processed one,
\* the skipped one having a candidate exactly at the threshold
C1_Witness ==
    /\ retval = "True"
    /\ Len(table1) = 2
    /\ SkipsOf(1) # {} /\ ResultsOf(2) # {}
    /\ \E j \in 1..Len(table2) :
          DistSq(table1[1].X, table1[1].Y, table2[j].X, table2[j].Y)
              = (THRESHOLD_DISTANCE \div GridStep) ^ 2
    /\ Cardinality(InRange(1)) = MIN_REF_POINTS - 1

\* the size the reference subset of treatment point i is to have
SubsetSize(i) ==
    LET fifth == (2 * Cardinality(InRange(i))) \div 10
    IN  IF fifth > MIN_REF_POINTS THEN fifth ELSE MIN_REF_POINTS

\* C2: the reference subset of a treatment point that is not skipped, and
\* the Ref_Points_Used of its result row, have the size
\* max(minimum_count, floor(filtered_count * top_fraction)), which is at least
\* the minimum count and at most the number of candidates in range.
C2_SubsetSize ==
    /\ pc = "score" =>
          /\ Len(top_records) = SubsetSize(idx)
          /\ Len(top_distances) = SubsetSize(idx)
    /\ \A i \in 1..Len(table1) : \A k \in ResultsOf(i) :
          /\ result_rows[k]["Ref_Points_Used"] = Num(SubsetSize(i))
          /\ SubsetSize(i) >= MIN_REF_POINTS
          /\ SubsetSize(i) <= Cardinality(InRange(i))
          /\ k = Len(result_rows) /\ pc # "score"
                => result_rows[k]["Ref_Points_Used"] = Num(Len(top_records))

\* a result row whose reference subset is larger than the minimum count
C2_Witness ==
    /\ pc = "done"
    /\ \E k \in 1..Len(result_rows) :
          /\ result_rows[k]["Ref_Points_Used"].n > MIN_REF_POINTS
          /\ result_rows[k]["Ref_Points_Used"].n = Len(top_records)

\* the index difference of the pool position j for the treatment point i
IndexDiff(i, j) == RAbs(RSub(table2[j].CEI, table1[i].CEI))

\* the pool positions the reference subset holds
Selected == {j \in 1..Len(table2) :
                \E k \in 1..Len(top_records) : top_records[k] = table2[j]}

\* C8: every member of the reference subset is a candidate in range (strictly
\* below the threshold), no member is taken twice, no candidate in range that
\* is left out is strictly more similar than a member, and every member goes
\* with its own distance.
C8_SubsetInRangeMostSimilar ==
    pc = "score" =>
        /\ \A k \in 1..Len(top_records) :
              /\ \E j \in InRange(idx) : top_records[k] = table2[j]
              /\ top_distances[k] = DistSq(table1[idx].X, table1[idx].Y,
                                           top_records[k].X, top_records[k].Y)
        /\ Len(top_distances) = Len(top_records)
        /\ Cardinality(Selected) = Len(top_records)
        /\ \A j \in InRange(idx) \ Selected : \A m \in Selected :
              ~RLt(IndexDiff(idx, j), IndexDiff(idx, m))

\* a selection that left a candidate in range out, with a candidate exactly
\* at the threshold in the pool ahead of a selected one, and members at
\* different distances
C8_Witness ==
    /\ pc = "score"
    /\ InRange(idx) \ Selected # {}
    /\ \E j \in 1..Len(table2), m \in Selected :
          /\ j < m
          /\ DistSq(table1[idx].X, table1[idx].Y, table2[j].X, table2[j].Y)
                 = (THRESHOLD_DISTANCE \div GridStep) ^ 2
    /\ \E k, m \in 1..Len(top_distances) : top_distances[k] # top_distances[m]

\* the pool positions in range of treatment point i by ascending index
\* difference, equal differences in pool order
RECURSIVE StableOrder(_, _)
StableOrder(i, S) ==
    IF S = {} THEN <<>>
    ELSE LET first == CHOOSE j \in S : \A m \in S :
                          \/ RLt(IndexDiff(i, j), IndexDiff(i, m))
                          \/ (IndexDiff(i, j) = IndexDiff(i, m) /\ j <= m)
         IN  <<first>> \o StableOrder(i, S \ {first})

\* C9: candidates of equal index difference keep their pool order, so the
\* reference subset is the first ones of the stable ranking, in that order.
C9_StableTies ==
    pc = "score" =>
        top_records = [k \in 1..Len(top_records) |->
                          table2[StableOrder(idx, InRange(idx))[k]]]

\* C3: when the run reports failure, it has written no results file and no
\* partial output.
C3_NoOutputOnFailure ==
    retval = "False" => output_file = "absent" /\ skipped_file = "absent"

\* C10: the Nearest_Ref_Distance of a result row is the smallest distance
\* among the reference subset used for its treatment point.
C10_NearestAmongSubset ==
    (pc # "score" /\ result_rows # <<>>) =>
        /\ top_distances # <<>>
        /\ result_rows[Len(result_rows)]["Nearest_Ref_Distance"]
              = Num(MinOf(top_distances))

====
